---- MODULE Spec2Model ----
(***************************************************************************)
(* Continuous Learning Coordinator of the tire-monitor dashboard           *)
(* (src/src/lib/ml/continuous-learning.ts) together with the feedback      *)
(* route that calls it (src/unnamed/part_004).                             *)
(*                                                                         *)
(* The Sample Store is the pair of directories labels/ and images/ below   *)
(* data/continuous-learning.  Handlers are async functions: the code that  *)
(* runs between two awaits is one atomic step, and the steps of different  *)
(* requests interleave.  Steps that touch no shared state are merged with  *)
(* the step that follows them.  The invocations suspended at an await form *)
(* a bag: they have no identity beyond their local variables.              *)
(*                                                                         *)
(* Sample ids (sample_<ms>_<random>) are modelled as fresh integers.  The  *)
(* samples an earlier run of the process left on disk, which no request of *)
(* this run names, are label/image file pairs like any other and are kept  *)
(* as a count.                                                             *)
(* Times are milliseconds since the epoch, as Date.now() returns them.     *)
(* Ratings are numbers (the TypeScript signature), corrections are the     *)
(* untyped object of the request body reduced to the fields the code reads *)
(* plus one flag for any other field.                                      *)
(*                                                                         *)
(* The inference service, the training and evaluation scripts and the      *)
(* orchestrator follow, each with a specification of its own; what they    *)
(* share is the models directory and the inference server process.         *)
(***************************************************************************)
EXTENDS Integers, Sequences, FiniteSets, Bags, TLC

(* ---------------- program constants ---------------- *)
minSamplesForRetrain == 50
retrainInterval == 24 * 60 * 60 * 1000

(* ---------------- bounds of the model ---------------- *)
NumProcs == 2          \* handler invocations that may be in flight together
InitStored == 49       \* label files left on disk by an earlier process run
MaxCalls == 2          \* capture and feedback calls per behaviour (Spec)
MaxTicks == 1          \* clock advances per behaviour
MaxSeqCaptures == 51   \* onPhotoCaptured calls per behaviour (ScenarioSpec)
MaxBatch == 3          \* images of a batchAnalyze call
MaxLabeled == 2        \* labeled training samples on disk
NumClasses == 2        \* classes the evaluated classifier tells apart
MaxPairs == 3          \* test samples of the classifier evaluation
MaxRuns == 2           \* runFullPipeline calls per behaviour
MaxChecks == 1         \* firings of the monitoring interval per behaviour
MaxPipeProcs == 2      \* pipeline runs and checks in flight together

StartTime == 10 * retrainInterval      \* Date.now() when the process starts
TickMs == retrainInterval              \* one clock advance

MissingId == 0                         \* an id no capture ever generates

(* absent JSON fields *)
Absent == -1
NoCondition == "none"

(* feedbackProvidedAt once written: an ISO date string that nothing reads, *)
(* kept as written / absent                                                *)
Stamped == 1

VARIABLES
  earlier,       \* number of unnamed label/image pairs of an earlier run
  labels,        \* labels/<id>.json : sample id -> stored TrainingSample
  images,        \* images/<id>.jpg  : set of sample ids
  dirsExist,     \* the directories created by initialize() exist
  lastRetrain,   \* this.lastRetrain
  clock,         \* Date.now()
  jobs,          \* retraining-jobs/retrain_<ms>.json : set of <ms>
  triggerLog,    \* calls of triggerRetraining, in order
  inflight,      \* bag of the handler invocations suspended at an await
  nextId,        \* next fresh sample id
  calls,         \* capture and feedback calls made so far
  everCorrected, \* history: ids whose labels a correction was written to
  out            \* what the last step returned to its caller

VARIABLES
  serverUp,      \* the inference server process is listening
  models,        \* ModelServer.models : the names of the loaded models
  isInitialized, \* MLService.isInitialized
  mlCall,        \* the MLService call in progress
  mlOut,         \* what the last MLService call returned
  artifacts,     \* models/<name>/model.json : the names of the saved models
  labeled,       \* data/labeled as the training script finds it
  trainCall,     \* the run of the training script in progress
  trainOut,      \* how the last training run ended
  testData,      \* data/test/<type>-test.json per task
  evalCall,      \* the evaluateAllModels call in progress
  evalOut,       \* how the last evaluateAllModels call ended
  state,         \* MLOpsPipeline.state
  logsDirExists, \* logs/ exists
  logTail,       \* logs/mlops-pipeline.log : its last line
  timers,        \* monitoring intervals that are active
  procs,         \* bag of the pipeline runs and checks suspended at an await
  runs,          \* runFullPipeline calls made so far
  checks,        \* interval firings so far
  pipeOut        \* how the last pipeline run or check ended

coordVars == <<earlier, labels, images, dirsExist, lastRetrain, clock, jobs,
               triggerLog, inflight, nextId, calls, everCorrected, out>>
serverVars == <<serverUp, models>>
mlVars == <<isInitialized, mlCall, mlOut>>
trainVars == <<labeled, trainCall, trainOut>>
evalVars == <<testData, evalCall, evalOut>>
pipeVars == <<state, logsDirExists, logTail, timers, procs, runs, checks,
              pipeOut>>

vars == <<coordVars, serverVars, mlVars, artifacts, trainVars, evalVars,
          pipeVars>>

(* ---------------- values ---------------- *)
NoCorrections ==
  [present |-> FALSE, actualTreadDepth |-> Absent,
   actualCondition |-> NoCondition, other |-> FALSE]

Corr(td, cond, other) ==
  [present |-> TRUE, actualTreadDepth |-> td,
   actualCondition |-> cond, other |-> other]

CorrectionInputs ==
  { NoCorrections,
    Corr(3, NoCondition, FALSE),
    Corr(0, NoCondition, FALSE),
    Corr(Absent, "poor", FALSE),
    Corr(Absent, NoCondition, TRUE) }

RatingInputs == {0, 2, 5, 6}

(* the requests tried: every rating without corrections, every correction  *)
(* with a low rating                                                       *)
FeedbackInputs ==
  {[rating |-> r, corr |-> NoCorrections] : r \in RatingInputs}
    \cup {[rating |-> 2, corr |-> c] : c \in CorrectionInputs}

AnalysisTreadDepth == 5
AnalysisCondition == "good"

(* the TrainingSample written by onPhotoCaptured *)
NewSample(analysed) ==
  [userRating |-> Absent,
   userCorrections |-> NoCorrections,
   feedbackProvidedAt |-> Absent,
   expertValidation |-> FALSE,
   treadDepth |-> IF analysed THEN AnalysisTreadDepth ELSE Absent,
   condition |-> IF analysed THEN AnalysisCondition ELSE NoCondition]

(* the frame of a suspended invocation: where it waits and its live locals *)
Frame(pc, kind) ==
  [pc |-> pc, kind |-> kind, sampleId |-> MissingId, now |-> 0,
   force |-> FALSE, jobId |-> 0, rating |-> Absent, corr |-> NoCorrections,
   data |-> NewSample(FALSE)]

NoOut == [op |-> "none"]

(* labelFiles.filter(f => f.endsWith('.json')).length *)
SampleCount == earlier + Cardinality(DOMAIN labels)

(* imageFiles.filter(f => f.endsWith('.jpg') || ...).length *)
ImageCount == earlier + Cardinality(images)

Suspended == BagToSet(inflight)

(* invocation h resumes and suspends again as g / returns *)
Resume(h, g) == inflight' = (inflight (-) SetToBag({h})) (+) SetToBag({g})
Finish(h) == inflight' = inflight (-) SetToBag({h})

(* h took a step / g came to be in this step *)
Stepped(h) == CopiesIn(h, inflight') < CopiesIn(h, inflight)
Arrived(g) == CopiesIn(g, inflight') > CopiesIn(g, inflight)

(* ---------------- checkRetrainingTrigger ---------------- *)
(* the cooldown test with the force flag forgotten *)
CooldownActiveIgnoringForce(forceCheck, now, last) ==
  (now - last) < retrainInterval

(* the early return of the cooldown test *)
CooldownActive(forceCheck, now, last) ==
  ~forceCheck /\ (now - last) < retrainInterval

(* the volume threshold one sample too low *)
VolumeMetOneEarly(sampleCount) == sampleCount >= minSamplesForRetrain - 1

(* the volume threshold with a strict comparison *)
VolumeMetStrict(sampleCount) == sampleCount > minSamplesForRetrain

(* the volume threshold *)
VolumeMet(sampleCount) == sampleCount >= minSamplesForRetrain

(* a handler returns to its caller after its retraining check *)
Checked(kind, forceCheck, chk) ==
  [op |-> "checked", kind |-> kind, force |-> forceCheck, check |-> chk]

(* the synchronous head of checkRetrainingTrigger, called by invocation h  *)
(* as its last statement right after its label file was written; only     *)
(* now and forceCheck stay live                                            *)
EnterCheck(h, forceCheck) ==
  IF CooldownActive(forceCheck, clock, lastRetrain)
    THEN /\ Finish(h)
         /\ out' = Checked(h.kind, forceCheck, "cooldown")
    ELSE /\ Resume(h, [Frame("chkReaddir", h.kind) EXCEPT
                         !.now = clock, !.force = forceCheck])
         /\ out' = NoOut

(* readdir(labels) resolves (the directory holds the label file the       *)
(* caller has just written); the count is compared and triggerRetraining   *)
(* is called, which names its job retrain_<Date.now()> and suspends        *)
CheckReaddir(h) ==
  /\ h.pc = "chkReaddir"
  /\ IF VolumeMet(SampleCount)
       THEN /\ triggerLog' = Append(triggerLog,
                               [now |-> h.now, force |-> h.force])
            /\ Resume(h, [h EXCEPT !.pc = "chkJob", !.jobId = clock])
            /\ out' = NoOut
       ELSE /\ Finish(h)
            /\ out' = Checked(h.kind, h.force, "below")
            /\ UNCHANGED triggerLog
  /\ UNCHANGED <<earlier, labels, images, dirsExist, lastRetrain, clock, jobs,
                 nextId, calls, everCorrected>>

(* triggerRetraining: mkdir + writeFile of the job record resolve (or      *)
(* fail, which it swallows); then lastRetrain = now                        *)
CheckJob(h) ==
  /\ h.pc = "chkJob"
  /\ \E writeOk \in BOOLEAN :
       jobs' = IF writeOk THEN jobs \cup {h.jobId} ELSE jobs
  /\ lastRetrain' = h.now
  /\ Finish(h)
  /\ out' = Checked(h.kind, h.force, "triggered")
  /\ UNCHANGED <<earlier, labels, images, dirsExist, clock, triggerLog,
                 nextId, calls, everCorrected>>

(* ---------------- onPhotoCaptured ---------------- *)
CaptureOut(res) == [op |-> "capture", result |-> res]

(* the capture that has not saved its image when it goes on to the label *)
StartCaptureImageLater(maxCalls, maxInflight, imageOks) ==
  /\ BagCardinality(inflight) < maxInflight
  /\ calls < maxCalls
  /\ calls' = calls + 1
  /\ nextId' = nextId + 1
  /\ \E imageOk \in imageOks :
       IF dirsExist /\ imageOk
         THEN /\ images' = images
              /\ inflight' = inflight (+) SetToBag(
                   {[Frame("capImage", "capture") EXCEPT
                       !.sampleId = nextId]})
              /\ out' = NoOut
         ELSE /\ out' = CaptureOut("threw")
              /\ UNCHANGED <<images, inflight>>
  /\ UNCHANGED <<earlier, labels, dirsExist, lastRetrain, clock, jobs, triggerLog,
                 everCorrected>>

(* id generation, arrayBuffer, sharp(...).toFile(imagePath) *)
StartCapture(maxCalls, maxInflight, imageOks) ==
  /\ BagCardinality(inflight) < maxInflight
  /\ calls < maxCalls
  /\ calls' = calls + 1
  /\ nextId' = nextId + 1
  /\ \E imageOk \in imageOks :
       IF dirsExist /\ imageOk
         THEN /\ images' = images \cup {nextId}
              /\ inflight' = inflight (+) SetToBag(
                   {[Frame("capImage", "capture") EXCEPT
                       !.sampleId = nextId]})
              /\ out' = NoOut
         ELSE /\ out' = CaptureOut("threw")
              /\ UNCHANGED <<images, inflight>>
  /\ UNCHANGED <<earlier, labels, dirsExist, lastRetrain, clock, jobs, triggerLog,
                 everCorrected>>

CaptureOutcomes ==
  {"tireMissing", "analysed", "analysisFailed", "analysisMalformed",
   "labelWriteFailed"}

(* tire lookup, analysis, writeFile(labelPath), saveAnalysisResults (which *)
(* swallows its errors and writes only to the database), and the head of   *)
(* checkRetrainingTrigger()                                                *)
CaptureLabel(h, outcomes) ==
  /\ h.pc = "capImage"
  /\ \E oc \in outcomes :
       IF oc \in {"analysed", "analysisFailed"}
         THEN /\ labels' = labels @@
                    (h.sampleId :> NewSample(oc = "analysed"))
              /\ EnterCheck(h, FALSE)
         ELSE /\ Finish(h)
              /\ out' = CaptureOut(IF oc = "tireMissing" THEN "undefined"
                                                         ELSE "threw")
              /\ UNCHANGED labels
  /\ UNCHANGED <<earlier, images, dirsExist, lastRetrain, clock, jobs, triggerLog,
                 nextId, calls, everCorrected>>

(* ---------------- environment ---------------- *)
Tick ==
  /\ clock < StartTime + MaxTicks * TickMs
  /\ clock' = clock + TickMs
  /\ out' = NoOut
  /\ UNCHANGED <<earlier, labels, images, dirsExist, lastRetrain, jobs, triggerLog,
                 inflight, nextId, calls, everCorrected>>

(* ---------------- onUserFeedback ---------------- *)
FeedbackIds == {MissingId, 1}

(* JavaScript truthiness of an optional number / optional string *)
TruthyNumber(n) == n # Absent /\ n # 0
TruthyCondition(c) == c # NoCondition

(* does the code write a corrected label for these corrections *)
AppliesCorrection(corrections) ==
  /\ corrections.present
  /\ \/ TruthyNumber(corrections.actualTreadDepth)
     \/ TruthyCondition(corrections.actualCondition)

(* the in-memory update of sampleData between readFile and writeFile *)
ApplyFeedback(sampleData, userRating, corrections) ==
  LET rated == [sampleData EXCEPT !.userRating = userRating,
                                  !.userCorrections = corrections,
                                  !.feedbackProvidedAt = Stamped]
      depth == IF corrections.present
                  /\ TruthyNumber(corrections.actualTreadDepth)
               THEN [rated EXCEPT
                       !.treadDepth = corrections.actualTreadDepth,
                       !.expertValidation = TRUE]
               ELSE rated
  IN  IF corrections.present /\ TruthyCondition(corrections.actualCondition)
      THEN [depth EXCEPT !.condition = corrections.actualCondition,
                         !.expertValidation = TRUE]
      ELSE depth

(* the condition under which onUserFeedback runs the forced check *)
HighConfidence(userRating, corrections) ==
  userRating >= 4 \/ corrections.present

(* the range test of the POST route *)
RouteRejects(userRating) == userRating < 1 \/ userRating > 5

FeedbackOut(userRating, found, res) ==
  [op |-> "feedback", rating |-> userRating, found |-> found,
   result |-> res]

(* what the POST route answers once its call of onUserFeedback is over *)
RouteResponse(result) ==
  IF result = "returned" THEN "success" ELSE "http500"

(* a feedback request arrives, either at the POST route, which validates   *)
(* and then calls onUserFeedback, or at onUserFeedback itself; the call    *)
(* runs up to its await of readFile                                        *)
StartFeedback ==
  /\ BagCardinality(inflight) < NumProcs
  /\ calls < MaxCalls
  /\ calls' = calls + 1
  /\ \E via \in {"route", "direct"}, id \in FeedbackIds,
        in \in FeedbackInputs :
       IF via = "route" /\ RouteRejects(in.rating)
         THEN /\ out' = FeedbackOut(in.rating, id \in DOMAIN labels,
                                    "http400")
              /\ UNCHANGED inflight
         ELSE /\ inflight' = inflight (+) SetToBag(
                   {[Frame("fbRead", "feedback") EXCEPT
                       !.sampleId = id, !.rating = in.rating,
                       !.corr = in.corr]})
              /\ out' = NoOut
  /\ UNCHANGED <<earlier, labels, images, dirsExist, lastRetrain, clock, jobs,
                 triggerLog, nextId, everCorrected>>

(* readFile(labelPath) resolves or rejects; a rejection is caught by       *)
(* onUserFeedback, which then returns normally                             *)
FeedbackRead(h) ==
  /\ h.pc = "fbRead"
  /\ IF h.sampleId \in DOMAIN labels
       THEN /\ Resume(h, [h EXCEPT
                            !.pc = "fbWrite",
                            !.data = ApplyFeedback(labels[h.sampleId],
                                       h.rating, h.corr)])
            /\ out' = NoOut
       ELSE /\ Finish(h)
            /\ out' = FeedbackOut(h.rating, FALSE, "returned")
  /\ UNCHANGED <<earlier, labels, images, dirsExist, lastRetrain, clock, jobs,
                 triggerLog, nextId, calls, everCorrected>>

(* writeFile(labelPath) of the file just read resolves; then the forced    *)
(* check or the return                                                     *)
FeedbackWrite(h) ==
  /\ h.pc = "fbWrite"
  /\ labels' = [labels EXCEPT ![h.sampleId] = h.data]
  /\ everCorrected' = IF AppliesCorrection(h.corr)
                      THEN everCorrected \cup {h.sampleId}
                      ELSE everCorrected
  /\ IF HighConfidence(h.rating, h.corr)
       THEN EnterCheck(h, TRUE)
       ELSE /\ Finish(h)
            /\ out' = FeedbackOut(h.rating, TRUE, "returned")
  /\ UNCHANGED <<earlier, images, dirsExist, lastRetrain, clock, jobs, triggerLog,
                 nextId, calls>>

(* ---------------- getLearningStats ---------------- *)
(* avgUserRating += sample.userRating over the samples whose rating is     *)
(* truthy                                                                  *)
RECURSIVE SumRatings(_)
SumRatings(ids) ==
  IF ids = {} THEN 0
  ELSE LET id == CHOOSE i \in ids : TRUE
       IN  labels[id].userRating + SumRatings(ids \ {id})

(* the division without its guard *)
AverageRatingUnguarded(sum, totalUserRatings) ==
  [num |-> sum, den |-> totalUserRatings]

(* avgUserRating /= totalUserRatings, guarded; a quotient is kept as the   *)
(* pair numerator / denominator, den = 0 standing for NaN                  *)
AverageRating(sum, totalUserRatings) ==
  IF totalUserRatings > 0 THEN [num |-> sum, den |-> totalUserRatings]
                          ELSE [num |-> sum, den |-> 1]

Max(a, b) == IF a >= b THEN a ELSE b

LearningStats ==
  IF dirsExist
  THEN LET rated == {id \in DOMAIN labels :
                        TruthyNumber(labels[id].userRating)}
       IN [totalSamples |-> SampleCount,
           totalImages |-> ImageCount,
           userFeedbackCount |-> Cardinality(rated),
           expertValidations |->
             Cardinality({id \in DOMAIN labels :
                            labels[id].expertValidation}),
           averageUserRating |->
             AverageRating(SumRatings(rated), Cardinality(rated)),
           lastRetraining |-> lastRetrain,
           nextRetraining |-> lastRetrain + retrainInterval,
           samplesUntilRetrain |->
             Max(0, minSamplesForRetrain - SampleCount),
           error |-> FALSE]
  ELSE [totalSamples |-> 0, totalImages |-> 0, userFeedbackCount |-> 0,
        expertValidations |-> 0,
        averageUserRating |-> [num |-> 0, den |-> 1],
        lastRetraining |-> Absent, nextRetraining |-> Absent,
        samplesUntilRetrain |-> Absent, error |-> TRUE]

(* the statistics are a snapshot; they are asked for between the captures  *)
(* and feedback events, when no handler is suspended                       *)
GetLearningStats ==
  /\ inflight = EmptyBag
  /\ out.op # "stats"
  /\ out' = [op |-> "stats", threw |-> FALSE, stats |-> LearningStats]
  /\ UNCHANGED <<earlier, labels, images, dirsExist, lastRetrain, clock, jobs,
                 triggerLog, inflight, nextId, calls, everCorrected>>

(* ---------------- initialize ---------------- *)
Initialize ==
  /\ ~dirsExist
  /\ dirsExist' = TRUE
  /\ out' = NoOut
  /\ UNCHANGED <<earlier, labels, images, lastRetrain, clock, jobs, triggerLog,
                 inflight, nextId, calls, everCorrected>>

(* ======================================================================= *)
(* The inference side: MLService (src/src/lib/ml/ml-service.ts) and the    *)
(* ModelServer it talks to (src/scripts/train-models.js, second script).   *)
(* One MLService call is followed at a time; the server starts and stops   *)
(* on its own.  Math.random() is a draw r / RandomUnit with r in           *)
(* RandomDraws; fractions are kept exact as num / den.                     *)
(* ======================================================================= *)
ModelNames == {"treadDepth", "conditionClassifier"}

conditionLabels == <<"excellent", "good", "fair", "poor", "critical">>
patterns == <<"uniform", "inner", "outer", "random">>
severities == <<"low", "medium", "high">>

RandomUnit == 100
RandomDraws == {0, 99}

Frac(n, d) == [num |-> n, den |-> d]

(* arr[Math.floor(Math.random() * arr.length)] *)
Pick(arr, r) == arr[((r * Len(arr)) \div RandomUnit) + 1]

RECURSIVE SumSeq(_)
SumSeq(s) == IF s = <<>> THEN 0 ELSE Head(s) + SumSeq(Tail(s))

(* fields a result object does not have *)
UndefinedTreadDepth ==
  [present |-> FALSE, value |-> 0, unit |-> "", confidence |-> Frac(0, 1)]

UndefinedCondition ==
  [present |-> FALSE, label |-> "", confidence |-> Frac(0, 1),
   scores |-> <<>>]

UndefinedWearPattern ==
  [present |-> FALSE, pattern |-> "", confidence |-> Frac(0, 1),
   severity |-> ""]

(* the draws one mock analysis makes *)
AllDraws ==
  [label : RandomDraws, scores : [1..Len(conditionLabels) -> RandomDraws],
   depth : RandomDraws, depthConf : RandomDraws,
   pattern : RandomDraws, patternConf : RandomDraws, severity : RandomDraws]

(* the same draw every time *)
UniformDraws ==
  {[label |-> r, scores |-> [i \in 1..Len(conditionLabels) |-> r],
    depth |-> r, depthConf |-> r,
    pattern |-> r, patternConf |-> r, severity |-> r] : r \in RandomDraws}

(* 0.7 + Math.random() * 0.25, in 1/10000 *)
generateWearPattern(d) ==
  [present |-> TRUE,
   pattern |-> Pick(patterns, d.pattern),
   confidence |-> Frac(7000 + 25 * d.patternConf, 10000),
   severity |-> Pick(severities, d.severity)]

(* the mock scores before normalisation, in 1/10000 *)
MockRawScores(d) ==
  LET chosen == ((d.label * Len(conditionLabels)) \div RandomUnit) + 1
  IN  [i \in 1..Len(conditionLabels) |->
         IF i = chosen THEN 6000 + 30 * d.scores[i] ELSE 20 * d.scores[i]]

(* scores[key] = scores[key] / total *)
Normalize(raw) ==
  LET total == SumSeq(raw)
  IN  [i \in 1..Len(raw) |-> Frac(raw[i], total)]

generateMockCondition(d) ==
  LET chosen == ((d.label * Len(conditionLabels)) \div RandomUnit) + 1
      scores == Normalize(MockRawScores(d))
  IN  [present |-> TRUE,
       label |-> conditionLabels[chosen],
       confidence |-> scores[chosen],
       scores |-> scores]

(* Math.round((1 + Math.random() * 9) * 100) / 100, in 1/100 mm; the draw  *)
(* is a multiple of 1/100, so the rounding is exact                        *)
generateMockTreadDepth(d) == 100 + 9 * d.depth

mockAnalysis(d) ==
  [treadDepth |-> [present |-> TRUE,
                   value |-> generateMockTreadDepth(d),
                   unit |-> "mm",
                   confidence |-> Frac(7500 + 20 * d.depthConf, 10000)],
   condition |-> generateMockCondition(d),
   wearPattern |-> generateWearPattern(d),
   metadata |-> TRUE,
   source |-> "mock"]

(* ---- ModelServer ---- *)
(* what the loaded models predict: the regression output in 1/100 mm and   *)
(* the softmax output in 1/10000                                           *)
TreadPredictions == {-50, 423, 1270}

ConditionPredictions ==
  { <<2000, 2000, 2000, 2000, 2000>>,
    <<100, 7000, 900, 1000, 1000>>,
    <<0, 0, 0, 0, 10000>> }

ServerPredictions == [tread : TreadPredictions, cond : ConditionPredictions]

(* Math.max(0, Math.min(10, treadDepth)) *)
Clamp(v) == IF v < 0 THEN 0 ELSE IF v > 1000 THEN 1000 ELSE v

(* conditionScores.indexOf(Math.max(...conditionScores)) *)
MaxIndex(s) ==
  CHOOSE i \in 1..Len(s) :
    /\ \A j \in 1..Len(s) : s[j] <= s[i]
    /\ \A j \in 1..(i - 1) : s[j] < s[i]

(* ModelServer.analyzeTireImage with the models loaded at the moment *)
ServerAnalysis(loaded, p) ==
  [treadDepth |->
     IF "treadDepth" \in loaded
       THEN [present |-> TRUE, value |-> Clamp(p.tread), unit |-> "mm",
             confidence |-> Frac(8500, 10000)]
       ELSE UndefinedTreadDepth,
   condition |->
     IF "conditionClassifier" \in loaded
       THEN [present |-> TRUE,
             label |-> conditionLabels[MaxIndex(p.cond)],
             confidence |-> Frac(p.cond[MaxIndex(p.cond)], 10000),
             scores |-> [i \in 1..Len(p.cond) |-> Frac(p.cond[i], 10000)]]
       ELSE UndefinedCondition,
   wearPattern |-> UndefinedWearPattern,
   metadata |-> TRUE,
   source |-> "server"]

(* the object analyzeWithServer builds from the server's answer *)
analyzeWithServer(analysis, d) ==
  [treadDepth |-> analysis.treadDepth,
   condition |-> analysis.condition,
   wearPattern |-> IF analysis.wearPattern.present
                     THEN analysis.wearPattern
                     ELSE generateWearPattern(d),
   metadata |-> TRUE,
   source |-> "server"]

(* the server process comes up with the model artifacts it finds and can  *)
(* load                                                                    *)
ServerStart ==
  /\ ~serverUp
  /\ serverUp' = TRUE
  /\ \E found \in SUBSET artifacts : models' = found
  /\ UNCHANGED <<isInitialized, mlCall, mlOut>>

ServerStop ==
  /\ serverUp
  /\ serverUp' = FALSE
  /\ models' = {}
  /\ UNCHANGED <<isInitialized, mlCall, mlOut>>

(* ---- MLService.analyzeTireImage ---- *)
NoCall == [pc |-> "idle"]

AnalyzeOut(valid, probe, outcome, result) ==
  [op |-> "analyze", valid |-> valid, probe |-> probe,
   outcome |-> outcome, result |-> result]

NoResult == [source |-> "none"]

(* initialize() (loadModels swallows every failure) and preprocessImage,   *)
(* which rejects for a file sharp cannot decode                            *)
StartAnalyze ==
  /\ mlCall = NoCall
  /\ isInitialized' = TRUE
  /\ \E valid \in BOOLEAN :
       IF valid
         THEN /\ mlCall' = [pc |-> "probe", op |-> "analyze"]
              /\ mlOut' = NoOut
         ELSE /\ mlCall' = NoCall
              /\ mlOut' = AnalyzeOut(FALSE, FALSE, "threw", NoResult)
  /\ UNCHANGED <<serverUp, models>>

(* isMLServerAvailable(): GET /health answers or the fetch rejects; without *)
(* the server the call ends in mockAnalysis                                *)
AnalyzeProbe(draws) ==
  /\ mlCall.pc = "probe"
  /\ mlCall.op = "analyze"
  /\ IF isInitialized /\ serverUp
       THEN /\ mlCall' = [mlCall EXCEPT !.pc = "request"]
            /\ mlOut' = NoOut
       ELSE /\ mlCall' = NoCall
            /\ \E d \in draws :
                 mlOut' = AnalyzeOut(TRUE, FALSE, "returned", mockAnalysis(d))
  /\ UNCHANGED <<serverUp, models, isInitialized>>

(* POST /analyze: the fetch rejects, the server answers 500 because its    *)
(* analysis threw, or it answers with its analysis                         *)
AnalyzeRequest(draws) ==
  /\ mlCall.pc = "request"
  /\ mlCall.op = "analyze"
  /\ mlCall' = NoCall
  /\ IF serverUp
       THEN \E serverOk \in BOOLEAN, p \in ServerPredictions, d \in draws :
              mlOut' =
                IF serverOk
                  THEN AnalyzeOut(TRUE, TRUE, "returned",
                         analyzeWithServer(ServerAnalysis(models, p), d))
                  ELSE AnalyzeOut(TRUE, TRUE, "threw", NoResult)
       ELSE mlOut' = AnalyzeOut(TRUE, TRUE, "threw", NoResult)
  /\ UNCHANGED <<serverUp, models, isInitialized>>

(* ---- MLService.batchAnalyze ---- *)
maxBatchFiles == 10

(* the batches tried: n files of which at most one cannot be decoded *)
BatchInputs ==
  {[n |-> n, bad |-> b] :
     n \in (0..MaxBatch) \cup {maxBatchFiles + 1}, b \in 0..MaxBatch}

BatchOut(n, bad, outcome, results) ==
  [op |-> "batch", n |-> n, bad |-> bad, outcome |-> outcome,
   results |-> results]

StartBatch ==
  /\ mlCall = NoCall
  /\ isInitialized' = TRUE
  /\ \E in \in BatchInputs :
       /\ in.bad <= in.n
       /\ mlCall' = [pc |-> "probe", op |-> "batch", n |-> in.n,
                     bad |-> in.bad, i |-> 0, results |-> <<>>]
  /\ mlOut' = NoOut
  /\ UNCHANGED <<serverUp, models>>

BatchProbe ==
  /\ mlCall.pc = "probe"
  /\ mlCall.op = "batch"
  /\ mlCall' = [mlCall EXCEPT !.pc = IF serverUp THEN "request" ELSE "mock"]
  /\ mlOut' = NoOut
  /\ UNCHANGED <<serverUp, models, isInitialized>>

(* one turn of the loop that leaves out an image it cannot preprocess *)
MockTurnSkipping(c, d) ==
  IF c.i + 1 = c.bad
    THEN [threw |-> FALSE, call |-> [c EXCEPT !.i = c.i + 1]]
    ELSE [threw |-> FALSE,
          call |-> [c EXCEPT !.i = c.i + 1,
                             !.results =
                               Append(c.results,
                                      [image |-> c.i + 1,
                                       analysis |-> mockAnalysis(d)])]]

(* one turn of the loop: preprocessImage(images[i]), which rejects for an  *)
(* undecodable file, then mockAnalysis and results.push                    *)
MockTurn(c, d) ==
  IF c.i + 1 = c.bad
    THEN [threw |-> TRUE, call |-> c]
    ELSE [threw |-> FALSE,
          call |-> [c EXCEPT !.i = c.i + 1,
                             !.results =
                               Append(c.results,
                                      [image |-> c.i + 1,
                                       analysis |-> mockAnalysis(d)])]]

(* the fallback loop of batchAnalyze, one image per step *)
BatchMock(draws) ==
  /\ mlCall.pc = "mock"
  /\ IF mlCall.i >= mlCall.n
       THEN /\ mlCall' = NoCall
            /\ mlOut' = BatchOut(mlCall.n, mlCall.bad, "returned",
                                 mlCall.results)
       ELSE \E d \in draws :
              LET t == MockTurn(mlCall, d)
              IN  IF t.threw
                    THEN /\ mlCall' = NoCall
                         /\ mlOut' = BatchOut(mlCall.n, mlCall.bad,
                                              "threw", <<>>)
                    ELSE /\ mlCall' = t.call
                         /\ mlOut' = NoOut
  /\ UNCHANGED <<serverUp, models, isInitialized>>

(* POST /analyze/batch on the server: 400 without files, an upload error   *)
(* beyond maxBatchFiles, 500 when one analysis throws, else one analysis   *)
(* per file in the order of the upload                                     *)
ServerBatch(n, bad, loaded, preds) ==
  IF n = 0 \/ n > maxBatchFiles \/ bad # 0
    THEN [ok |-> FALSE, results |-> <<>>]
    ELSE [ok |-> TRUE,
          results |-> [i \in 1..n |->
                         [image |-> i,
                          analysis |-> ServerAnalysis(loaded, preds[i])]]]

(* batchAnalyzeWithServer: the fetch rejects, the status is not OK, or     *)
(* result.results.map(r => r.analysis)                                     *)
BatchRequest ==
  /\ mlCall.pc = "request"
  /\ mlCall.op = "batch"
  /\ mlCall' = NoCall
  /\ IF serverUp
       THEN \E serverOk \in BOOLEAN,
               preds \in [1..(IF mlCall.n <= maxBatchFiles
                                   THEN mlCall.n ELSE 0)
                             -> ServerPredictions] :
              LET r == ServerBatch(mlCall.n, mlCall.bad, models, preds)
              IN  mlOut' =
                    IF serverOk /\ r.ok
                      THEN BatchOut(mlCall.n, mlCall.bad, "returned",
                                    r.results)
                      ELSE BatchOut(mlCall.n, mlCall.bad, "threw", <<>>)
       ELSE mlOut' = BatchOut(mlCall.n, mlCall.bad, "threw", <<>>)
  /\ UNCHANGED <<serverUp, models, isInitialized>>

(* ======================================================================= *)
(* The training script: TireModelTrainer (src/scripts/train-models.js).    *)
(* data/labeled is read by the script and filled by other programs.        *)
(* ======================================================================= *)
(* the states of data/labeled tried: the directory readable or not, the    *)
(* number of files with labels, and how many of their images decode        *)
LabeledStates ==
  {[readable |-> r, samples |-> n, images |-> k] :
     r \in BOOLEAN, n \in 0..MaxLabeled, k \in 0..MaxLabeled}

NoLabeled == [readable |-> FALSE, samples |-> 0, images |-> 0]

(* the labeled directory changes under the script *)
LabeledChange ==
  /\ \E l \in LabeledStates :
       /\ l.images <= l.samples
       /\ l # labeled
       /\ labeled' = l
  /\ UNCHANGED <<artifacts, trainCall, trainOut>>

(* loadTrainingData: trainingData.length; a failing readdir gives [] *)
loadTrainingData(l) == IF l.readable THEN l.samples ELSE 0

(* preprocessImages: images.length; undecodable images are left out *)
preprocessImages(l) == l.images

(* does trainTreadDepthModel save its artifact *)
trainTreadDepthModel(l, fitOk) ==
  /\ loadTrainingData(l) # 0
  /\ preprocessImages(l) # 0
  /\ fitOk

(* does trainConditionClassifier save its artifact (it fits on             *)
(* generateSyntheticTrainingData(1000))                                    *)
trainConditionClassifier(l, fitOk) ==
  /\ loadTrainingData(l) # 0
  /\ fitOk

TrainOut(saved, seen) ==
  [op |-> "run", outcome |-> "returned", saved |-> saved, seen |-> seen]

(* run(): mkdir(modelsDir) *)
StartTrain ==
  /\ trainCall.pc = "idle"
  /\ trainCall' = [pc |-> "treadDepth", saved |-> {}, seen |-> <<>>]
  /\ trainOut' = NoOut
  /\ UNCHANGED <<labeled, artifacts>>

(* await this.trainTreadDepthModel(); fit or save may throw, which the     *)
(* method catches                                                          *)
TrainTreadDepth ==
  /\ trainCall.pc = "treadDepth"
  /\ \E fitOk \in BOOLEAN :
       LET saves == trainTreadDepthModel(labeled, fitOk)
       IN  /\ artifacts' = IF saves THEN artifacts \cup {"treadDepth"}
                                    ELSE artifacts
           /\ trainCall' =
                [pc |-> "conditionClassifier",
                 saved |-> IF saves THEN {"treadDepth"} ELSE {},
                 seen |-> <<labeled>>]
  /\ trainOut' = NoOut
  /\ UNCHANGED labeled

(* await this.trainConditionClassifier(); run() returns *)
TrainCondition ==
  /\ trainCall.pc = "conditionClassifier"
  /\ \E fitOk \in BOOLEAN :
       LET saves == trainConditionClassifier(labeled, fitOk)
           saved == IF saves THEN trainCall.saved \cup {"conditionClassifier"}
                             ELSE trainCall.saved
       IN  /\ artifacts' = IF saves
                             THEN artifacts \cup {"conditionClassifier"}
                             ELSE artifacts
           /\ trainOut' = TrainOut(saved, Append(trainCall.seen, labeled))
  /\ trainCall' = NoCall
  /\ UNCHANGED labeled

(* ======================================================================= *)
(* The evaluation script: ModelEvaluator (src/scripts/evaluate-models.js). *)
(* ======================================================================= *)
Tasks == <<"treadDepth", "conditionClassifier">>

(* data/test/<type>-test.json: absent, with an empty samples list, or with *)
(* samples                                                                 *)
TestDataStates == {"missing", "empty", "present"}

(* what evaluation finds when the test data has samples: the              *)
(* (predicted, actual) classes of the classifier ...                       *)
Classes == 0..(NumClasses - 1)

RECURSIVE SeqsUpTo(_, _)
SeqsUpTo(S, n) ==
  IF n = 0 THEN {<<>>}
  ELSE LET shorter == SeqsUpTo(S, n - 1)
       IN  shorter \cup {Append(s, x) : s \in shorter, x \in S}

PairLists == SeqsUpTo([pred : Classes, actual : Classes], MaxPairs) \ {<<>>}

(* ... and the differences predicted - actual of the regressor, in mm *)
TreadErrors == { <<0>>, <<1, -1>>, <<3>> }

(* a common denominator of the fractions with denominator up to MaxPairs *)
RECURSIVE Factorial(_)
Factorial(n) == IF n <= 1 THEN 1 ELSE n * Factorial(n - 1)

CommonDen == Factorial(MaxPairs)

RECURSIVE SumOver(_, _)
SumOver(S, f) ==
  IF S = {} THEN 0
  ELSE LET x == CHOOSE y \in S : TRUE
       IN  f[x] + SumOver(S \ {x}, f)

(* confusionMatrix[actual][pred] *)
Confusion(pairs, actual, pred) ==
  Cardinality({i \in DOMAIN pairs :
                 pairs[i].actual = actual /\ pairs[i].pred = pred})

(* the keys of confusionMatrix *)
Rows(pairs) == {pairs[i].actual : i \in DOMAIN pairs}

(* calculatePrecision: per row, row[row's class] over the sum of the row *)
calculatePrecision(pairs) ==
  LET rowSum == [a \in Rows(pairs) |->
                   SumOver(Classes, [p \in Classes |-> Confusion(pairs, a, p)])]
      counted == {a \in Rows(pairs) : rowSum[a] > 0}
      total == SumOver(counted,
                 [a \in counted |->
                    Confusion(pairs, a, a) * (CommonDen \div rowSum[a])])
  IN  IF Cardinality(counted) > 0
        THEN Frac(total, CommonDen * Cardinality(counted))
        ELSE Frac(0, 1)

(* calculateRecall: per row, row[row's class] over the sum, across the     *)
(* rows, of the entries in that class's column                             *)
calculateRecall(pairs) ==
  LET colSum == [a \in Rows(pairs) |->
                   SumOver(Rows(pairs),
                           [r \in Rows(pairs) |-> Confusion(pairs, r, a)])]
      counted == {a \in Rows(pairs) : colSum[a] > 0}
      total == SumOver(counted,
                 [a \in counted |->
                    Confusion(pairs, a, a) * (CommonDen \div colSum[a])])
  IN  IF Cardinality(counted) > 0
        THEN Frac(total, CommonDen * Cardinality(counted))
        ELSE Frac(0, 1)

(* calculateF1Score: 2 * (p * r) / (p + r), 0 when p + r = 0 *)
calculateF1Score(pairs) ==
  LET p == calculatePrecision(pairs)
      r == calculateRecall(pairs)
  IN  IF p.num * r.den + r.num * p.den = 0
        THEN Frac(0, 1)
        ELSE Frac(2 * p.num * r.num, p.num * r.den + r.num * p.den)

(* getEmptyMetrics *)
getEmptyMetrics ==
  [kind |-> "empty", accuracy |-> Frac(0, 1), precision |-> Frac(0, 1),
   recall |-> Frac(0, 1), f1Score |-> Frac(0, 1), mse |-> Frac(0, 1)]

(* calculateClassificationMetrics; correct / n is NaN (den = 0) for n = 0; *)
(* the result has no mse                                                   *)
calculateClassificationMetrics(pairs) ==
  [kind |-> "classification",
   accuracy |-> Frac(Cardinality({i \in DOMAIN pairs :
                                    pairs[i].pred = pairs[i].actual}),
                     Len(pairs)),
   precision |-> calculatePrecision(pairs),
   recall |-> calculateRecall(pairs),
   f1Score |-> calculateF1Score(pairs),
   mse |-> Frac(0, 0)]

(* calculateRegressionMetrics, of which the mean squared error is kept;    *)
(* the result has no accuracy, precision, recall or f1Score                *)
calculateRegressionMetrics(diffs) ==
  [kind |-> "regression",
   accuracy |-> Frac(0, 0), precision |-> Frac(0, 0), recall |-> Frac(0, 0),
   f1Score |-> Frac(0, 0),
   mse |-> Frac(SumSeq([i \in DOMAIN diffs |-> diffs[i] * diffs[i]]),
                Len(diffs))]

(* evaluateConditionClassifier without its test for missing test data *)
evaluateConditionClassifierUnguarded(data, loadOk, pairs) ==
  IF ~loadOk THEN getEmptyMetrics
  ELSE IF data = "present" THEN calculateClassificationMetrics(pairs)
  ELSE calculateClassificationMetrics(<<>>)

(* evaluateConditionClassifier: loadModel may throw, loadTestData returns  *)
(* [] for a missing or unparsable file                                     *)
evaluateConditionClassifier(data, loadOk, pairs) ==
  IF ~loadOk THEN getEmptyMetrics
  ELSE IF data = "present" THEN calculateClassificationMetrics(pairs)
  ELSE getEmptyMetrics

(* evaluateTreadDepthModel *)
evaluateTreadDepthModel(data, loadOk, diffs) ==
  IF ~loadOk THEN getEmptyMetrics
  ELSE IF data = "present" THEN calculateRegressionMetrics(diffs)
  ELSE getEmptyMetrics

(* q < 1.0 and q > 0.8 on fractions; both are false for NaN *)
LessThanOne(q) == q.den > 0 /\ q.num < q.den
MoreThanFourFifths(q) == q.den > 0 /\ 5 * q.num > 4 * q.den

NotEvaluated == [kind |-> "none"]

(* generateReport: the entries of report.models and their status *)
generateReport(results) ==
  [t \in DOMAIN results |->
     IF results[t].kind = "none" THEN [present |-> FALSE, status |-> ""]
     ELSE [present |-> TRUE,
           status |->
             IF t = "treadDepth"
               THEN (IF LessThanOne(results[t].mse)
                       THEN "good" ELSE "needs_improvement")
               ELSE (IF MoreThanFourFifths(results[t].accuracy)
                       THEN "good" ELSE "needs_improvement")]]

NoReport == [written |-> FALSE]

(* the test files change between two runs of the script; each is read once *)
(* per run, so a change during a run is the same as one before it          *)
TestDataChange ==
  /\ evalCall = NoCall
  /\ \E t \in {"treadDepth", "conditionClassifier"}, s \in TestDataStates :
       /\ testData[t] # s
       /\ testData' = [testData EXCEPT ![t] = s]
  /\ evalOut' = NoOut
  /\ UNCHANGED evalCall

(* evaluateAllModels up to its first modelExists *)
StartEvaluate ==
  /\ evalCall.pc = "idle"
  /\ evalCall' = [pc |-> "treadDepth",
                  results |-> [t \in {"treadDepth", "conditionClassifier"}
                                 |-> NotEvaluated],
                  seen |-> [t \in {"treadDepth", "conditionClassifier"}
                              |-> "none"],
                  pairs |-> <<>>]
  /\ evalOut' = NoOut
  /\ UNCHANGED testData

(* modelExists('tread-depth-model') and evaluateTreadDepthModel() *)
EvaluateTreadDepth ==
  /\ evalCall.pc = "treadDepth"
  /\ IF "treadDepth" \in artifacts
       THEN \E loadOk \in BOOLEAN, diffs \in TreadErrors :
              evalCall' =
                [evalCall EXCEPT
                   !.pc = "conditionClassifier",
                   !.results["treadDepth"] =
                      evaluateTreadDepthModel(testData["treadDepth"],
                                              loadOk, diffs),
                   !.seen["treadDepth"] = testData["treadDepth"]]
       ELSE evalCall' = [evalCall EXCEPT !.pc = "conditionClassifier"]
  /\ evalOut' = NoOut
  /\ UNCHANGED testData

(* modelExists('condition-classifier-model') and                           *)
(* evaluateConditionClassifier()                                           *)
EvaluateCondition ==
  /\ evalCall.pc = "conditionClassifier"
  /\ IF "conditionClassifier" \in artifacts
       THEN \E loadOk \in BOOLEAN, pairs \in PairLists :
              evalCall' =
                [evalCall EXCEPT
                   !.pc = "report",
                   !.results["conditionClassifier"] =
                      evaluateConditionClassifier(
                        testData["conditionClassifier"], loadOk, pairs),
                   !.seen["conditionClassifier"] =
                      testData["conditionClassifier"],
                   !.pairs = IF loadOk
                                /\ testData["conditionClassifier"] = "present"
                             THEN pairs ELSE <<>>]
       ELSE evalCall' = [evalCall EXCEPT !.pc = "report"]
  /\ evalOut' = NoOut
  /\ UNCHANGED testData

(* how evaluateAllModels ended and the report it left in results/ *)
EvalOut(outcome, c, report) ==
  [op |-> "evaluate", outcome |-> outcome, results |-> c.results,
   seen |-> c.seen, pairs |-> c.pairs, report |-> report]

(* generateReport and saveReport, whose writes may fail; evaluateAllModels *)
(* returns its results or rethrows                                         *)
EvaluateReport ==
  /\ evalCall.pc = "report"
  /\ \E writeOk \in BOOLEAN :
       evalOut' =
         IF writeOk
           THEN EvalOut("returned", evalCall,
                        [written |-> TRUE,
                         models |-> generateReport(evalCall.results)])
           ELSE EvalOut("threw", evalCall, NoReport)
  /\ evalCall' = NoCall
  /\ UNCHANGED testData

(* ======================================================================= *)
(* The orchestrator: MLOpsPipeline (src/scripts/mlops-pipeline.js).        *)
(* runFullPipeline calls and monitoring checks are async functions of one  *)
(* process; the ones suspended at an await form the bag procs.  A phase    *)
(* that runs a script is suspended while the child process runs.  The log  *)
(* file is only ever appended to and never read, so its last line is kept. *)
(* Accuracies are in 1/1000.                                               *)
(* ======================================================================= *)
retrainThreshold == 20

FullPhases ==
  <<"data_collection", "data_labeling", "model_training", "model_evaluation",
    "model_deployment", "monitoring_setup">>

RetrainPhases == <<"model_training", "model_evaluation", "model_deployment">>

(* loadEvaluationResults: 0.85 + Math.random() * 0.1 *)
AccuracyDraws == {0, 30, 50}
Accuracy(r) == 850 + r

(* this.state before initialize() has run *)
UndefinedState ==
  [defined |-> FALSE, lastRun |-> 0, lastDataCollection |-> FALSE,
   lastTraining |-> FALSE, modelVersions |-> <<>>, accuracy |-> Absent,
   isRunning |-> FALSE]

(* this.state as initialize() sets it *)
FreshState ==
  [defined |-> TRUE, lastRun |-> 0, lastDataCollection |-> FALSE,
   lastTraining |-> FALSE, modelVersions |-> <<>>, accuracy |-> Absent,
   isRunning |-> FALSE]

LogLine(eventType, status) == [eventType |-> eventType, status |-> status]

NoLine == LogLine("", "")

(* logEvent: appendFile to logs/mlops-pipeline.log *)
logEvent(eventType, status) == logTail' = LogLine(eventType, status)

PipeFrame(kind, rest, previous, current) ==
  [kind |-> kind, pc |-> "init", phase |-> "", rest |-> rest,
   started |-> <<>>, previous |-> previous, current |-> current]

(* the next phase method is called and runs up to its first await *)
Enter(f) ==
  IF f.rest = <<>> THEN [f EXCEPT !.pc = "finish", !.phase = ""]
  ELSE LET p == Head(f.rest)
       IN  [f EXCEPT !.phase = p,
                     !.rest = Tail(f.rest),
                     !.started = Append(f.started, p),
                     !.pc = IF p = "model_deployment" THEN "stopping"
                            ELSE IF p = "monitoring_setup" THEN "monitor"
                            ELSE "script"]

PipeResume(h, g) == procs' = (procs (-) SetToBag({h})) (+) SetToBag({g})
PipeReturn(h) == procs' = procs (-) SetToBag({h})

(* how a phase may end *)
PhaseOutcomes == {"success", "failed"}

(* initialize() called on its own *)
InitializePipeline ==
  /\ ~state.defined
  /\ logsDirExists' = TRUE
  /\ state' = FreshState
  /\ pipeOut' = NoOut
  /\ UNCHANGED <<logTail, timers, procs, runs, checks, serverUp, models>>

RunOut(outcome, f) ==
  [op |-> "runFullPipeline", outcome |-> outcome, started |-> f.started]

(* runFullPipeline up to await this.initialize(): the assignments to       *)
(* this.state stand before the try and throw while this.state is undefined *)
StartPipeline ==
  /\ runs < MaxRuns
  /\ BagCardinality(procs) < MaxPipeProcs
  /\ runs' = runs + 1
  /\ IF state.defined
       THEN /\ state' = [state EXCEPT !.isRunning = TRUE,
                                      !.lastRun = runs + 1]
            /\ procs' = procs (+) SetToBag(
                 {PipeFrame("pipeline", FullPhases, Absent, Absent)})
            /\ pipeOut' = NoOut
       ELSE /\ pipeOut' = RunOut("threw",
                                 PipeFrame("pipeline", FullPhases,
                                           Absent, Absent))
            /\ UNCHANGED <<state, procs>>
  /\ UNCHANGED <<logsDirExists, logTail, timers, checks, serverUp, models>>

(* initialize() inside runFullPipeline resolves and runDataCollection      *)
(* spawns its script                                                       *)
PipeInit(h) ==
  /\ h.kind = "pipeline"
  /\ h.pc = "init"
  /\ logsDirExists' = TRUE
  /\ state' = FreshState
  /\ PipeResume(h, Enter(h))
  /\ pipeOut' = NoOut
  /\ UNCHANGED <<logTail, timers, runs, checks, serverUp, models>>

(* this.state after the try block of a phase that ran its script *)
AfterScript(s, phase, r) ==
  IF phase = "data_collection" THEN [s EXCEPT !.lastDataCollection = TRUE]
  ELSE IF phase = "model_training"
    THEN [s EXCEPT !.lastTraining = TRUE,
                   !.modelVersions = Append(s.modelVersions, "active")]
  ELSE IF phase = "model_evaluation" THEN [s EXCEPT !.accuracy = Accuracy(r)]
  ELSE s

(* the script of the phase closes: code 0 runs the rest of the try block,  *)
(* any other code the catch block; both log, and the next phase is entered *)
ScriptDone(h) ==
  /\ h.pc = "script"
  /\ \E status \in PhaseOutcomes, r \in AccuracyDraws :
       /\ state' = IF status = "success"
                     THEN AfterScript(state, h.phase, r)
                     ELSE state
       /\ logEvent(h.phase, status)
       /\ PipeResume(h, Enter(h))
  /\ pipeOut' = NoOut
  /\ UNCHANGED <<logsDirExists, timers, runs, checks, serverUp, models>>

(* a stop that rejects when it finds no server process, which fails the    *)
(* deployment phase before its start                                       *)
DeployStoppedStrict(h) ==
  /\ h.pc = "stopping"
  /\ IF serverUp
       THEN /\ serverUp' = FALSE
            /\ models' = {}
            /\ PipeResume(h, [h EXCEPT !.pc = "starting"])
            /\ UNCHANGED logTail
       ELSE /\ logEvent(h.phase, "failed")
            /\ PipeResume(h, Enter(h))
            /\ UNCHANGED <<serverUp, models>>
  /\ pipeOut' = NoOut
  /\ UNCHANGED <<state, logsDirExists, timers, runs, checks>>

(* stopModelServer(): pkill has closed, whether or not it found a process; *)
(* startModelServer() spawns the server                                    *)
DeployStopped(h) ==
  /\ h.pc = "stopping"
  /\ serverUp' = FALSE
  /\ models' = {}
  /\ PipeResume(h, [h EXCEPT !.pc = "starting"])
  /\ pipeOut' = NoOut
  /\ UNCHANGED <<state, logsDirExists, logTail, timers, runs, checks>>

(* startModelServer() resolves after its delay or rejects on a spawn error *)
DeployStarted(h) ==
  /\ h.pc = "starting"
  /\ \E status \in PhaseOutcomes :
       /\ IF status = "success"
            THEN /\ serverUp' = TRUE
                 /\ \E found \in SUBSET artifacts : models' = found
            ELSE UNCHANGED <<serverUp, models>>
       /\ logEvent(h.phase, status)
       /\ PipeResume(h, Enter(h))
  /\ pipeOut' = NoOut
  /\ UNCHANGED <<state, logsDirExists, timers, runs, checks>>

(* runContinuousMonitoring: startMonitoringJob() installs an interval *)
MonitorSetup(h) ==
  /\ h.pc = "monitor"
  /\ timers' = timers + 1
  /\ logEvent(h.phase, "success")
  /\ PipeResume(h, Enter(h))
  /\ pipeOut' = NoOut
  /\ UNCHANGED <<state, logsDirExists, runs, checks, serverUp, models>>

(* the end of runFullPipeline: pipeline_complete is logged and the finally *)
(* block clears isRunning                                                  *)
PipeFinish(h) ==
  /\ h.kind = "pipeline"
  /\ h.pc = "finish"
  /\ logEvent("pipeline_complete", "success")
  /\ state' = [state EXCEPT !.isRunning = FALSE]
  /\ PipeReturn(h)
  /\ pipeOut' = RunOut("returned", h)
  /\ UNCHANGED <<logsDirExists, timers, runs, checks, serverUp, models>>

(* the comparison with >= *)
RetrainNeededAtThreshold(previous, current) ==
  /\ TruthyNumber(previous)
  /\ TruthyNumber(current)
  /\ previous - current >= retrainThreshold

(* previousMetrics.accuracy && currentMetrics.accuracy and                 *)
(* accuracyDrop > this.config.retrainThreshold                             *)
RetrainNeeded(previous, current) ==
  /\ TruthyNumber(previous)
  /\ TruthyNumber(current)
  /\ previous - current > retrainThreshold

CheckOut(f) ==
  [op |-> "check", previous |-> f.previous, current |-> f.current,
   started |-> f.started]

(* an interval fires: performMonitoringCheck up to the await of            *)
(* runModelTraining, or, without a retrain, to its end                     *)
TimerFires ==
  /\ timers > 0
  /\ checks < MaxChecks
  /\ BagCardinality(procs) < MaxPipeProcs
  /\ checks' = checks + 1
  /\ \E r \in AccuracyDraws :
       LET f == PipeFrame("check", RetrainPhases, state.accuracy, Accuracy(r))
       IN  IF RetrainNeeded(state.accuracy, Accuracy(r))
             THEN /\ procs' = procs (+) SetToBag({Enter(f)})
                  /\ pipeOut' = NoOut
                  /\ UNCHANGED logTail
             ELSE /\ logEvent("monitoring_check", "success")
                  /\ pipeOut' = CheckOut(f)
                  /\ UNCHANGED procs
  /\ UNCHANGED <<state, logsDirExists, timers, runs, serverUp, models>>

(* the end of a check that retrained: checkDataVolume and its log line *)
CheckFinish(h) ==
  /\ h.kind = "check"
  /\ h.pc = "finish"
  /\ logEvent("monitoring_check", "success")
  /\ PipeReturn(h)
  /\ pipeOut' = CheckOut(h)
  /\ UNCHANGED <<state, logsDirExists, timers, runs, checks, serverUp, models>>

(* ---------------- specifications ---------------- *)
(* a freshly constructed coordinator; the store on disk is empty (with or  *)
(* without its directories) or holds the samples of an earlier run         *)
(* of n stored samples the first keeps its id, so that feedback can name it *)
StoredIds(n) == IF n > 0 THEN {1} ELSE {}

InitWith(n, dirs) ==
  /\ earlier = n - Cardinality(StoredIds(n))
  /\ labels = [id \in StoredIds(n) |-> NewSample(TRUE)]
  /\ images = StoredIds(n)
  /\ dirsExist = dirs
  /\ lastRetrain = 0
  /\ clock = StartTime
  /\ jobs = {}
  /\ triggerLog = <<>>
  /\ inflight = EmptyBag
  /\ nextId = Cardinality(StoredIds(n)) + 1
  /\ calls = 0
  /\ everCorrected = {}
  /\ out = NoOut

(* the other components before they are used *)
ServiceIdle ==
  /\ serverUp = FALSE
  /\ models = {}
  /\ isInitialized = FALSE
  /\ mlCall = NoCall
  /\ mlOut = NoOut

TrainerIdle ==
  /\ labeled = NoLabeled
  /\ trainCall = NoCall
  /\ trainOut = NoOut

EvaluatorIdle ==
  /\ testData = [t \in {"treadDepth", "conditionClassifier"} |-> "missing"]
  /\ evalCall = NoCall
  /\ evalOut = NoOut

PipelineIdle ==
  /\ state = UndefinedState
  /\ logsDirExists = FALSE
  /\ logTail = NoLine
  /\ timers = 0
  /\ procs = EmptyBag
  /\ runs = 0
  /\ checks = 0
  /\ pipeOut = NoOut

Init ==
  /\ \/ \E dirs \in BOOLEAN : InitWith(0, dirs)
     \/ InitWith(InitStored, TRUE)
  /\ ServiceIdle
  /\ artifacts = {}
  /\ TrainerIdle
  /\ EvaluatorIdle
  /\ PipelineIdle

(* a step of the retraining coordinator leaves the other components alone *)
CoordinatorStep ==
  UNCHANGED <<serverVars, mlVars, artifacts, trainVars, evalVars, pipeVars>>

Next ==
  \/ StartCapture(MaxCalls, NumProcs, BOOLEAN) /\ CoordinatorStep
  \/ \E h \in Suspended : CaptureLabel(h, CaptureOutcomes) /\ CoordinatorStep
  \/ \E h \in Suspended : CheckReaddir(h) /\ CoordinatorStep
  \/ \E h \in Suspended : CheckJob(h) /\ CoordinatorStep
  \/ StartFeedback /\ CoordinatorStep
  \/ \E h \in Suspended : FeedbackRead(h) /\ CoordinatorStep
  \/ \E h \in Suspended : FeedbackWrite(h) /\ CoordinatorStep
  \/ GetLearningStats /\ CoordinatorStep
  \/ Initialize /\ CoordinatorStep
  \/ Tick /\ CoordinatorStep

Spec == Init /\ [][Next]_vars

(* End-to-end scenario 1: one caller capturing photo after photo into an   *)
(* initialised, empty store, every capture succeeding                      *)
ScenarioInit ==
  /\ InitWith(0, TRUE)
  /\ ServiceIdle
  /\ artifacts = {}
  /\ TrainerIdle
  /\ EvaluatorIdle
  /\ PipelineIdle

ScenarioNext ==
  \/ StartCapture(MaxSeqCaptures, 1, {TRUE}) /\ CoordinatorStep
  \/ \E h \in Suspended : CaptureLabel(h, {"analysed"}) /\ CoordinatorStep
  \/ \E h \in Suspended : CheckReaddir(h) /\ CoordinatorStep
  \/ \E h \in Suspended : CheckJob(h) /\ CoordinatorStep
  \/ Tick /\ CoordinatorStep

ScenarioSpec == ScenarioInit /\ [][ScenarioNext]_vars

(* the inference service with a server that comes and goes *)
AnalyzeInit ==
  /\ InitWith(0, TRUE)
  /\ ServiceIdle
  /\ artifacts \in SUBSET ModelNames
  /\ TrainerIdle
  /\ EvaluatorIdle
  /\ PipelineIdle

(* a step of the inference service or of the model server *)
ServiceStep ==
  UNCHANGED <<coordVars, artifacts, trainVars, evalVars, pipeVars>>

AnalyzeNext ==
  \/ ServerStart /\ ServiceStep
  \/ ServerStop /\ ServiceStep
  \/ StartAnalyze /\ ServiceStep
  \/ AnalyzeProbe(AllDraws) /\ ServiceStep
  \/ AnalyzeRequest(AllDraws) /\ ServiceStep
  \/ StartBatch /\ ServiceStep
  \/ BatchProbe /\ ServiceStep
  \/ BatchMock(UniformDraws) /\ ServiceStep
  \/ BatchRequest /\ ServiceStep

AnalyzeSpec == AnalyzeInit /\ [][AnalyzeNext]_vars

(* the training script run again and again over a changing data/labeled *)
TrainInit ==
  /\ InitWith(0, TRUE)
  /\ ServiceIdle
  /\ artifacts = {}
  /\ labeled \in {l \in LabeledStates : l.images <= l.samples}
  /\ trainCall = NoCall
  /\ trainOut = NoOut
  /\ EvaluatorIdle
  /\ PipelineIdle

(* a step of the training script *)
TrainerStep ==
  UNCHANGED <<coordVars, serverVars, mlVars, evalVars, pipeVars>>

TrainNext ==
  \/ LabeledChange /\ TrainerStep
  \/ StartTrain /\ TrainerStep
  \/ TrainTreadDepth /\ TrainerStep
  \/ TrainCondition /\ TrainerStep

TrainSpec == TrainInit /\ [][TrainNext]_vars

(* the evaluation script over the model artifacts and test data it finds *)
EvalInit ==
  /\ InitWith(0, TRUE)
  /\ ServiceIdle
  /\ artifacts \in SUBSET ModelNames
  /\ TrainerIdle
  /\ EvaluatorIdle
  /\ PipelineIdle

(* a step of the evaluation script *)
EvaluatorStep ==
  UNCHANGED <<coordVars, serverVars, mlVars, artifacts, trainVars, pipeVars>>

EvalNext ==
  \/ TestDataChange /\ EvaluatorStep
  \/ StartEvaluate /\ EvaluatorStep
  \/ EvaluateTreadDepth /\ EvaluatorStep
  \/ EvaluateCondition /\ EvaluatorStep
  \/ EvaluateReport /\ EvaluatorStep

EvalSpec == EvalInit /\ [][EvalNext]_vars

(* the orchestrator, freshly constructed *)
PipelineInit ==
  /\ InitWith(0, TRUE)
  /\ ServiceIdle
  /\ artifacts = {}
  /\ TrainerIdle
  /\ EvaluatorIdle
  /\ PipelineIdle

(* a step of the orchestrator *)
OrchestratorStep ==
  UNCHANGED <<coordVars, mlVars, artifacts, trainVars, evalVars>>

PipelineNext ==
  \/ InitializePipeline /\ OrchestratorStep
  \/ StartPipeline /\ OrchestratorStep
  \/ \E h \in BagToSet(procs) : PipeInit(h) /\ OrchestratorStep
  \/ \E h \in BagToSet(procs) : ScriptDone(h) /\ OrchestratorStep
  \/ \E h \in BagToSet(procs) : DeployStopped(h) /\ OrchestratorStep
  \/ \E h \in BagToSet(procs) : DeployStarted(h) /\ OrchestratorStep
  \/ \E h \in BagToSet(procs) : MonitorSetup(h) /\ OrchestratorStep
  \/ \E h \in BagToSet(procs) : PipeFinish(h) /\ OrchestratorStep
  \/ TimerFires /\ OrchestratorStep
  \/ \E h \in BagToSet(procs) : CheckFinish(h) /\ OrchestratorStep

PipelineSpec == PipelineInit /\ [][PipelineNext]_vars

(* ---------------- properties ---------------- *)

(* C1: retraining is never triggered, and no RetrainingJob is written,     *)
(* while fewer than minSamplesForRetrain label files are stored, whether   *)
(* the check was forced or not and however long ago the last retrain was.  *)
C1_VolumeFloor ==
  (triggerLog # <<>> \/ jobs # {} \/ \E h \in Suspended : h.pc = "chkJob")
    => SampleCount >= minSamplesForRetrain

(* a forced check with the cooldown long over that found the store one     *)
(* sample short and returned without training                              *)
C1_Witness ==
  /\ out.op = "checked"
  /\ out.kind = "feedback"
  /\ out.check = "below"
  /\ out.force
  /\ clock - lastRetrain >= retrainInterval
  /\ SampleCount = minSamplesForRetrain - 1
  /\ triggerLog = <<>>

(* C2: onUserFeedback goes on to the forced check exactly when the rating  *)
(* is at least 4 or corrections are present, the forced check is not       *)
(* stopped by the cooldown, and with enough samples it triggers.           *)
C2_ForceWaivesCooldown ==
  [][\A h \in Suspended :
       /\ (h.pc = "fbWrite" /\ Stepped(h))
            => ((\E g \in BagToSet(inflight') :
                    g.pc = "chkReaddir" /\ g.force /\ Arrived(g))
                  <=> (h.rating >= 4 \/ h.corr.present))
       /\ (h.pc = "chkReaddir" /\ Stepped(h) /\ h.force
             /\ SampleCount >= minSamplesForRetrain)
            => /\ Len(triggerLog') = Len(triggerLog) + 1
               /\ triggerLog'[Len(triggerLog')].force]_vars

(* a forced check has called triggerRetraining although the previous       *)
(* retrain is less than retrainInterval old                                *)
C2_Witness ==
  \E h \in Suspended :
    /\ h.pc = "chkJob"
    /\ h.force
    /\ lastRetrain > 0
    /\ h.now - lastRetrain < retrainInterval

(* C3 (ScenarioSpec): from the empty store no retraining is triggered      *)
(* while fewer than 50 samples are stored, and the capture that stores the *)
(* 50th triggers it exactly once.                                          *)
C3_Scenario1 ==
  /\ SampleCount < 50 => triggerLog = <<>>
  /\ (SampleCount = 50 /\ \E h \in Suspended : h.pc = "chkReaddir")
       => triggerLog = <<>>
  /\ (SampleCount = 50 /\ \A h \in Suspended : h.pc # "chkReaddir")
       => Len(triggerLog) = 1

(* the 50th capture has returned after triggering retraining *)
C3_Witness ==
  /\ SampleCount = 50
  /\ out.op = "checked"
  /\ out.kind = "capture"
  /\ out.check = "triggered"
  /\ Len(triggerLog) = 1

(* C4: two unforced checks never both trigger retraining within one        *)
(* cooldown window.                                                        *)
C4_NoBackToBack ==
  \A i, j \in DOMAIN triggerLog :
    (i < j /\ ~triggerLog[i].force /\ ~triggerLog[j].force)
      => triggerLog[j].now - triggerLog[i].now >= retrainInterval

(* C5: feedback with a rating outside 1..5 is answered by a validation     *)
(* error and no such rating is ever written to a label file.               *)
C5_RatingValidated ==
  /\ (out.op = "feedback" /\ out.rating \notin 1..5)
       => out.result = "http400"
  /\ \A id \in DOMAIN labels :
       labels[id].userRating \in {Absent} \cup 1..5

(* C6: a stored sample whose last feedback carried non-empty corrections   *)
(* has expertValidation set and holds every corrected value.               *)
C6_CorrectionsApplied ==
  \A id \in DOMAIN labels :
    LET c == labels[id].userCorrections
    IN  (c.present /\ (c.actualTreadDepth # Absent
                         \/ c.actualCondition # NoCondition \/ c.other))
          => /\ labels[id].expertValidation
             /\ c.actualTreadDepth # Absent
                  => labels[id].treadDepth = c.actualTreadDepth
             /\ c.actualCondition # NoCondition
                  => labels[id].condition = c.actualCondition

(* C7: a stored sample is marked expertValidation exactly if a correction  *)
(* was ever written to its labels.                                         *)
C7_ExpertIffCorrected ==
  \A id \in DOMAIN labels :
    labels[id].expertValidation <=> id \in everCorrected

(* C8: feedback for a sample id without label file does not return         *)
(* normally, so the endpoint does not answer success.                      *)
C8_MissingSampleSurfaced ==
  (out.op = "feedback" /\ ~out.found)
    => /\ out.result # "returned"
       /\ RouteResponse(out.result) # "success"

(* C9: getLearningStats on a store without label and image files returns   *)
(* zero for the five counters, the average being the number 0, and does    *)
(* not throw.                                                              *)
C9_EmptyStats ==
  (out.op = "stats" /\ SampleCount = 0 /\ ImageCount = 0)
    => /\ ~out.threw
       /\ out.stats.totalSamples = 0
       /\ out.stats.totalImages = 0
       /\ out.stats.userFeedbackCount = 0
       /\ out.stats.expertValidations = 0
       /\ out.stats.averageUserRating.num = 0
       /\ out.stats.averageUserRating.den # 0

(* statistics were computed from the existing, empty directories *)
C9_Witness ==
  /\ out.op = "stats"
  /\ ~out.stats.error
  /\ SampleCount = 0
  /\ ImageCount = 0

(* the ratings stored, summed without regard to their value *)
RECURSIVE StoredRatingSum(_)
StoredRatingSum(ids) ==
  IF ids = {} THEN 0
  ELSE LET id == CHOOSE i \in ids : TRUE
       IN  labels[id].userRating + StoredRatingSum(ids \ {id})

(* C10: the statistics count the samples that carry a rating, average      *)
(* their ratings, and report max(0, threshold - totalSamples).             *)
C10_StatsMatchStore ==
  (out.op = "stats" /\ ~out.stats.error)
    => LET carrying == {id \in DOMAIN labels :
                          labels[id].userRating # Absent}
           n == Cardinality(carrying)
       IN  /\ out.stats.userFeedbackCount = n
           /\ n > 0 => out.stats.averageUserRating.num * n
                         = StoredRatingSum(carrying)
                             * out.stats.averageUserRating.den
           /\ out.stats.samplesUntilRetrain
                = (IF SampleCount >= minSamplesForRetrain THEN 0
                   ELSE minSamplesForRetrain - SampleCount)

(* ---------------- properties of the inference service ---------------- *)

(* a confidence or score is a number in [0, 1] *)
InUnit(q) == q.den > 0 /\ 0 <= q.num /\ q.num <= q.den

(* all four parts of a TireAnalysisResult are there and every confidence   *)
(* is in [0, 1]                                                            *)
StructurallyValid(r) ==
  /\ r.treadDepth.present
  /\ r.condition.present
  /\ r.wearPattern.present
  /\ r.metadata
  /\ InUnit(r.treadDepth.confidence)
  /\ InUnit(r.condition.confidence)
  /\ InUnit(r.wearPattern.confidence)
  /\ \A i \in DOMAIN r.condition.scores : InUnit(r.condition.scores[i])

(* C11: every result analyzeTireImage returns for a valid image has        *)
(* treadDepth, condition, wearPattern and metadata populated and every     *)
(* confidence in [0, 1], on the mock path and on the server path whatever  *)
(* models the server has loaded.                                           *)
C11_AlwaysValid ==
  (mlOut.op = "analyze" /\ mlOut.valid /\ mlOut.outcome = "returned")
    => StructurallyValid(mlOut.result)

(* C12: analyzeTireImage on a valid image never ends in an error: when the *)
(* probe fails, or the /analyze request fails or is answered with a non-OK *)
(* status after the probe succeeded, the mock analysis is returned.        *)
C12_FallbackNotError ==
  (mlOut.op = "analyze" /\ mlOut.valid)
    => /\ mlOut.outcome = "returned"
       /\ mlOut.result.source \in {"mock", "server"}

(* the numerators of the scores add up to their common denominator *)
ScoresSumToOne(scores) ==
  /\ scores # <<>>
  /\ \A i \in DOMAIN scores : scores[i].den = scores[1].den
  /\ SumSeq([i \in DOMAIN scores |-> scores[i].num]) = scores[1].den

(* C13: for a valid image, on the server path and on the mock path, the    *)
(* returned treadDepth.value is in [0, 10], the condition scores sum to 1  *)
(* and condition.confidence is the score of the returned label.            *)
C13_RangesAndScores ==
  (mlOut.op = "analyze" /\ mlOut.valid /\ mlOut.outcome = "returned")
    => LET r == mlOut.result
       IN  /\ r.treadDepth.present
           /\ r.treadDepth.value \in 0..1000
           /\ r.condition.present
           /\ ScoresSumToOne(r.condition.scores)
           /\ \E i \in DOMAIN r.condition.scores :
                /\ conditionLabels[i] = r.condition.label
                /\ r.condition.confidence = r.condition.scores[i]

(* C14: batchAnalyze either fails as a whole or returns exactly one result *)
(* per input image in input order; it never returns a list that is shorter *)
(* than the input or leaves out an image whose processing failed.          *)
C14_NoPartialBatch ==
  mlOut.op = "batch"
    => \/ mlOut.outcome = "threw" /\ mlOut.results = <<>>
       \/ /\ mlOut.outcome = "returned"
          /\ Len(mlOut.results) = mlOut.n
          /\ \A i \in 1..mlOut.n : mlOut.results[i].image = i

(* a batch of at least two images came back from the mock fallback *)
C14_Witness ==
  /\ mlOut.op = "batch"
  /\ mlOut.outcome = "returned"
  /\ mlOut.n >= 2
  /\ Len(mlOut.results) = mlOut.n
  /\ mlOut.results[mlOut.n].analysis.source = "mock"

(* ---------------- properties of the orchestrator ---------------- *)

(* C15: runFullPipeline, on an orchestrator in any state, a freshly        *)
(* constructed one included, starts the six phases in their order.         *)
C15_SixPhasesInOrder ==
  pipeOut.op = "runFullPipeline" => pipeOut.started = FullPhases

(* the number of suspended invocations among S *)
InFlight(S) == SumOver(S, [h \in S |-> CopiesIn(h, procs)])

TrainingInFlight ==
  InFlight({h \in BagToSet(procs) :
              h.pc = "script" /\ h.phase = "model_training"})

(* C16: at most one training script is in flight, at most one              *)
(* runFullPipeline call and at most one monitoring check.                  *)
C16_Serialized ==
  /\ TrainingInFlight <= 1
  /\ InFlight({h \in BagToSet(procs) : h.kind = "pipeline"}) <= 1
  /\ InFlight({h \in BagToSet(procs) : h.kind = "check"}) <= 1

(* s is the beginning of t *)
IsPrefix(s, t) == Len(s) <= Len(t) /\ SubSeq(t, 1, Len(s)) = s

(* C17: a monitoring check starts training, then evaluation, then          *)
(* deployment exactly when the last-recorded accuracy exceeds the new      *)
(* accuracy by more than retrainThreshold; otherwise it starts none.       *)
C17_DriftRetrain ==
  /\ \A h \in BagToSet(procs) :
       h.kind = "check"
         => /\ h.previous # Absent
            /\ h.previous - h.current > retrainThreshold
            /\ h.started # <<>>
            /\ IsPrefix(h.started, RetrainPhases)
  /\ pipeOut.op = "check"
       => IF pipeOut.previous # Absent
             /\ pipeOut.previous - pipeOut.current > retrainThreshold
          THEN pipeOut.started = RetrainPhases
          ELSE pipeOut.started = <<>>

(* a check found the accuracy dropped and has retrained, evaluated and     *)
(* deployed                                                                *)
C17_Witness ==
  /\ pipeOut.op = "check"
  /\ pipeOut.previous - pipeOut.current > retrainThreshold
  /\ pipeOut.started = RetrainPhases

(* ---------------- properties of the training script ---------------- *)

(* C18: a run of the training script persists an artifact for the tread   *)
(* depth model and one for the condition classifier, or fails with         *)
(* InsufficientDataError.                                                  *)
C18_ArtifactOrError ==
  trainOut.op = "run"
    => \/ trainOut.saved = ModelNames
       \/ trainOut.outcome = "InsufficientDataError"

(* ---------------- properties of the evaluation script ---------------- *)

(* the classes that occur, predicted or actual *)
Occurring(pairs) ==
  {pairs[i].pred : i \in DOMAIN pairs} \cup {pairs[i].actual : i \in DOMAIN pairs}

TruePositives(pairs, c) ==
  Cardinality({i \in DOMAIN pairs : pairs[i].pred = c /\ pairs[i].actual = c})

PredictedAs(pairs, c) == Cardinality({i \in DOMAIN pairs : pairs[i].pred = c})

ActuallyOf(pairs, c) == Cardinality({i \in DOMAIN pairs : pairs[i].actual = c})

(* the macro average of TP / of[c] over the occurring classes, a class     *)
(* with of[c] = 0 counting as 0                                            *)
MacroAverage(pairs, of) ==
  LET cs == Occurring(pairs)
  IN  Frac(SumOver(cs, [c \in cs |->
                          IF of[c] = 0 THEN 0
                          ELSE TruePositives(pairs, c) * (CommonDen \div of[c])]),
           CommonDen * Cardinality(cs))

SameNumber(a, b) ==
  a.den # 0 /\ b.den # 0 /\ a.num * b.den = b.num * a.den

(* C19: for a non-empty list of (predicted, actual) pairs the precision    *)
(* and recall of calculateClassificationMetrics are the macro averages of  *)
(* TP / predicted-as and TP / actually-of over the classes, a class with a *)
(* zero denominator contributing 0.                                        *)
C19_MacroMetrics ==
  (evalOut.op = "evaluate" /\ evalOut.pairs # <<>>)
    => LET pairs == evalOut.pairs
           m == evalOut.results["conditionClassifier"]
       IN  /\ SameNumber(m.precision,
                  MacroAverage(pairs, [c \in Occurring(pairs) |->
                                         PredictedAs(pairs, c)]))
           /\ SameNumber(m.recall,
                  MacroAverage(pairs, [c \in Occurring(pairs) |->
                                         ActuallyOf(pairs, c)]))

(* C20: a task whose test data is missing or empty gets the empty metrics, *)
(* every task whose model exists is evaluated, and the report, when its    *)
(* file can be written, covers them all.                                   *)
C20_EmptyMetrics ==
  evalOut.op = "evaluate"
    => /\ \A t \in DOMAIN evalOut.results :
            /\ evalOut.seen[t] \in {"missing", "empty"}
                 => evalOut.results[t] = getEmptyMetrics
            /\ t \in artifacts <=> evalOut.results[t].kind # "none"
       /\ evalOut.outcome = "returned"
            => /\ evalOut.report.written
               /\ \A t \in DOMAIN evalOut.results :
                    evalOut.report.models[t].present <=> t \in artifacts

(* the tread depth test data was missing; the classifier was evaluated on  *)
(* its samples all the same and the report was written                     *)
C20_Witness ==
  /\ evalOut.op = "evaluate"
  /\ evalOut.outcome = "returned"
  /\ evalOut.seen["treadDepth"] = "missing"
  /\ evalOut.results["treadDepth"] = getEmptyMetrics
  /\ evalOut.results["conditionClassifier"].kind = "classification"
  /\ evalOut.report.written

(* ---------------- properties of the Sample Store ---------------- *)

(* the captures suspended between their image and their label *)
CapturesInFlight == {h \in Suspended : h.kind = "capture" /\ h.pc = "capImage"}

WritingFeedback(id) ==
  {h \in Suspended : h.pc = "fbWrite" /\ h.sampleId = id /\ Stepped(h)}

(* C22: feedback is last-write-wins per label field: the treadDepth and    *)
(* the condition of a stored sample change only to the value that the      *)
(* feedback being written supplies for that field, so a feedback that does *)
(* not correct a field leaves an earlier correction of it in place.        *)
C22_LastWriteWins ==
  [][\A id \in DOMAIN labels :
       /\ labels'[id].treadDepth # labels[id].treadDepth
            => \E h \in WritingFeedback(id) :
                 /\ h.corr.present
                 /\ h.corr.actualTreadDepth # Absent
                 /\ h.corr.actualTreadDepth = labels'[id].treadDepth
       /\ labels'[id].condition # labels[id].condition
            => \E h \in WritingFeedback(id) :
                 /\ h.corr.present
                 /\ h.corr.actualCondition # NoCondition
                 /\ h.corr.actualCondition = labels'[id].condition]_vars

(* C23: a userRating is set at most once: once a stored sample has one, no *)
(* step changes it.                                                        *)
C23_RatingSetOnce ==
  [][\A id \in DOMAIN labels :
       labels[id].userRating # Absent
         => labels'[id].userRating = labels[id].userRating]_vars

(* C26: lastRetrain changes only in a step that writes a RetrainingJob     *)
(* record; a check whose job record cannot be written, or that stops at    *)
(* the cooldown or volume test, leaves it as it was.                       *)
C26_LastRetrainIffJob ==
  [][lastRetrain' # lastRetrain => jobs' # jobs]_vars

(* C29: once no capture is in progress every image file of the store has a *)
(* label file with its id, and getLearningStats reports as many images as  *)
(* samples, also after captures that ended early or failed.                *)
C29_NoOrphanImage ==
  /\ CapturesInFlight = {} => images \subseteq DOMAIN labels
  /\ (out.op = "stats" /\ ~out.stats.error)
       => out.stats.totalImages = out.stats.totalSamples

(* ------------- further properties of the orchestrator ------------- *)

(* invocation h of the orchestrator took a step / g came to be in it *)
PipeStepped(h) == CopiesIn(h, procs') < CopiesIn(h, procs)
PipeArrived(g) == CopiesIn(g, procs') > CopiesIn(g, procs)

(* C24: in a deployment phase the stop comes first and the start follows   *)
(* it: the stop step ends with no server running and goes on to the start, *)
(* whether or not a server was there to stop; the start step ends the      *)
(* phase with its log line, success only with a server running; and no     *)
(* server is started by any other step.                                    *)
C24_StopThenStart ==
  [][/\ \A h \in BagToSet(procs) :
          /\ (PipeStepped(h) /\ h.pc = "stopping")
               => /\ ~serverUp'
                  /\ \E g \in BagToSet(procs') :
                       /\ PipeArrived(g)
                       /\ g = [h EXCEPT !.pc = "starting"]
          /\ (PipeStepped(h) /\ h.pc = "starting")
               => /\ logTail'.eventType = "model_deployment"
                  /\ logTail'.status = "success" => serverUp'
     /\ (serverUp' /\ ~serverUp)
          => \E h \in BagToSet(procs) : PipeStepped(h) /\ h.pc = "starting"
    ]_vars

(* the first deployment, with no server to stop, was logged as a success   *)
(* and its server runs                                                     *)
C24_Witness ==
  /\ runs = 1
  /\ checks = 0
  /\ logTail = LogLine("model_deployment", "success")
  /\ serverUp

(* C25: of the model versions the orchestrator tracks at most one has the  *)
(* status active, however many training phases succeeded.                  *)
C25_OneActive ==
  Cardinality({i \in DOMAIN state.modelVersions :
                 state.modelVersions[i] = "active"}) <= 1

(* the runFullPipeline calls past their await of initialize() *)
PipelinesInPhase ==
  {h \in BagToSet(procs) : h.kind = "pipeline" /\ h.pc # "init"}

(* C27: isRunning is true while a phase of a runFullPipeline call executes *)
(* and false when no call is in progress, and lastRun is the start of the  *)
(* most recent call while it executes.                                     *)
C27_IsRunningReflects ==
  /\ PipelinesInPhase # {} => state.isRunning /\ state.lastRun = runs
  /\ {h \in BagToSet(procs) : h.kind = "pipeline"} = {} => ~state.isRunning

(* C28: at most one monitoring interval is active, however many            *)
(* runFullPipeline calls were made.                                        *)
C28_OneTimer == timers <= 1

(* ------------ further properties of the evaluation script ------------ *)

(* C30: a model whose evaluation gave the empty metrics is not reported    *)
(* with the status good: the report marks it needs_improvement.            *)
C30_EmptyNotGood ==
  (evalOut.op = "evaluate" /\ evalOut.report.written)
    => \A t \in DOMAIN evalOut.results :
         evalOut.results[t] = getEmptyMetrics
           => evalOut.report.models[t].status = "needs_improvement"

====
